---- MODULE Spec2Model ----
(***************************************************************************)
(* Model of simple_agent.py (SimpleAgent) and simple_chatbot.py            *)
(* (SimpleChatbot).                                                        *)
(*                                                                         *)
(* One action models one iteration of the `while True` loop of run(); the  *)
(* external collaborators (input(), the chat-completion API, the search    *)
(* backend) are inputs drawn from small sets.  An exception that leaves    *)
(* run() is recorded in `exit` (resp. `cb_exit`), after which no action of *)
(* that program is enabled.                                                *)
(***************************************************************************)
EXTENDS Naturals, Sequences, FiniteSets, TLC

VARIABLES
    state,            \* SimpleAgent._state
    message_history,  \* SimpleAgent._message_history
    user_query,       \* local user_query of SimpleAgent.run
    response,         \* local response of SimpleAgent.run
    completion,       \* message of the latest completion _get_response received
    exit,             \* how SimpleAgent.run was left ("none" while it runs)
    request,          \* messages= of the agent's latest chat-completion call
    printed,          \* the assistant lines the agent printed
    searched,         \* the keywords the agent passed to the search backend
    reads,            \* number of input() calls of the agent that returned
    turns,            \* number of END steps of the agent (completed turns)
    rounds,           \* number of TOOL_RUN steps of the agent that completed
    model_calls,      \* number of chat-completion calls that returned to the agent
    cb_message_history, \* SimpleChatbot._message_history
    cb_user_query,    \* local user_query of SimpleChatbot.run
    cb_request,       \* messages= of the chatbot's latest chat-completion call
    cb_printed,       \* the values the chatbot printed
    cb_turns,         \* completed loop iterations of SimpleChatbot.run
    cb_exit           \* how SimpleChatbot.run was left ("none" while it runs)

agent_vars == <<state, message_history, user_query, response, completion, exit,
                request,
                printed, searched, reads, turns, rounds, model_calls>>
chatbot_vars == <<cb_message_history, cb_user_query, cb_request, cb_printed,
                  cb_turns, cb_exit>>
vars == <<state, message_history, user_query, response, completion, exit,
          request,
          printed, searched, reads, turns, rounds, model_calls,
          cb_message_history, cb_user_query, cb_request, cb_printed, cb_turns,
          cb_exit>>

(***************************************************************************)
(* Bounds of the model.                                                    *)
(***************************************************************************)
\* chat-completion calls per run
MaxModelCalls == 3
\* tool calls per model response
MaxCalls == 2

(***************************************************************************)
(* Values.                                                                 *)
(***************************************************************************)
\* Python's None, where a str is expected
None == "<None>"

\* class State
START == "START"
LLM_CALL == "LLM_CALL"
TOOL_RUN == "TOOL_RUN"
END == "END"
State == {START, LLM_CALL, TOOL_RUN, END}

\* Python truthiness of a `str | None`
Truthy(s) == s # None /\ s # ""

\* the lines input() can return
Inputs == {"", "hello"}

\* the text of a model reply: absent, empty or not
Contents == {None, "", "answer"}

\* function.arguments as the model writes it: JSON text
ArgsQuery == "{\"query\": \"tla\"}"
ArgsNoQuery == "{\"q\": \"tla\"}"
ArgsNotObject == "[\"tla\"]"
ArgsMalformed == "{\"query\": "
ArgTexts == {ArgsQuery, ArgsNoQuery, ArgsNotObject, ArgsMalformed}

\* one tool call of a model message
RawToolCall(id, name, arguments) ==
    [id |-> id, type |-> "function",
     function |-> [name |-> name, arguments |-> arguments]]

\* what a tool call can ask for: a search in each shape of arguments, and a
\* tool the agent does not have
ToolCallKinds ==
    { <<"search", a>> : a \in ArgTexts } \cup { <<"calc", ArgsQuery>> }

\* the API gives the tool calls of a message distinct ids
CallIds == <<"call_1", "call_2", "call_3", "call_4">>

\* the non-empty tool_calls lists of a model message
ToolCallLists ==
    UNION { { [i \in 1..k |-> RawToolCall(CallIds[i], kinds[i][1], kinds[i][2])] :
                kinds \in [1..k -> ToolCallKinds] } : k \in 1..MaxCalls }

\* completion.choices[0].message; tool_calls None and [] are both falsy and
\* both modelled by the empty sequence
ModelMessages ==
    { [content |-> c, tool_calls |-> <<>>] : c \in Contents }
    \cup
    { [content |-> c, tool_calls |-> t] :
        c \in {None, "answer"}, t \in ToolCallLists }

\* what one ddgs.text() call can do: return results (joined into one text),
\* or raise
DDGSError == "<DuckDuckGoSearchException>"
KeyboardInterrupt == "<KeyboardInterrupt>"
SearchTexts == {"Title: t\nURL: u\nBody: b"}
SearchOutcomes == SearchTexts \cup {DDGSError, KeyboardInterrupt}

(***************************************************************************)
(* json.loads and the pydantic validation of ToolCall.arguments.           *)
(***************************************************************************)
\* json.loads(text) does not raise JSONDecodeError
JsonValid(text) == text \in {ArgsQuery, ArgsNoQuery, ArgsNotObject}

\* json.loads(text) is a dict
JsonIsObject(text) == text \in {ArgsQuery, ArgsNoQuery}

\* json.loads(text), for a text that is a JSON object: its (key, value) pairs
json_loads(text) ==
    CASE text = ArgsQuery -> {<<"query", "tla">>}
      [] text = ArgsNoQuery -> {<<"q", "tla">>}
      [] OTHER -> {}

\* `key in d` for a dict
HasKey(d, key) == \E kv \in d : kv[1] = key

\* d[key] for a dict that has the key
Lookup(d, key) == (CHOOSE kv \in d : kv[1] = key)[2]

(***************************************************************************)
(* SimpleAgent._get_response, as pure functions of the completion message. *)
(***************************************************************************)
\* _SYSTEM_PROMPT, and the prompt main() of simple_chatbot.py passes
AgentSystemPrompt == "<agent system prompt>"
ChatbotSystemPrompt == "<chatbot system prompt>"

\* self._system_message
SystemMessage(prompt) == [role |-> "system", content |-> prompt]

\* the user's message is stored when user_query is truthy
AppendUser(history, query) ==
    IF Truthy(query)
    THEN Append(history, [role |-> "user", content |-> query])
    ELSE history

\* a slip in the request: the system message is left out
MessagesWithoutSystem(system, history) == history

\* messages=[self._system_message, *self._message_history]
Messages(system, history) == <<system>> \o history

\* the entries of message_to_add["tool_calls"]
StoredToolCalls(tool_calls) ==
    [i \in 1..Len(tool_calls) |->
        [id |-> tool_calls[i].id,
         type |-> tool_calls[i].type,
         function |-> [name |-> tool_calls[i].function.name,
                       arguments |-> tool_calls[i].function.arguments]]]

\* message_to_add: content and tool_calls are set only when truthy
AssistantMessage(m) ==
    IF Truthy(m.content) /\ Len(m.tool_calls) > 0
    THEN [role |-> "assistant", content |-> m.content,
          tool_calls |-> StoredToolCalls(m.tool_calls)]
    ELSE IF Truthy(m.content)
    THEN [role |-> "assistant", content |-> m.content]
    ELSE IF Len(m.tool_calls) > 0
    THEN [role |-> "assistant", tool_calls |-> StoredToolCalls(m.tool_calls)]
    ELSE [role |-> "assistant"]

\* the exception ToolCall(..., arguments=json.loads(...)) raises, if any
ToolCallError(t) ==
    IF ~JsonValid(t.function.arguments) THEN "JSONDecodeError"
    ELSE IF ~JsonIsObject(t.function.arguments) THEN "ValidationError"
    ELSE "none"

\* the exception the conversion loop raises: that of the first failing call
ConversionError(tool_calls) ==
    IF \A i \in 1..Len(tool_calls) : ToolCallError(tool_calls[i]) = "none"
    THEN "none"
    ELSE LET first == CHOOSE i \in 1..Len(tool_calls) :
                        /\ ToolCallError(tool_calls[i]) # "none"
                        /\ \A j \in 1..(i-1) : ToolCallError(tool_calls[j]) = "none"
         IN ToolCallError(tool_calls[first])

\* class ToolCall, built from one tool call of the model
ToolCallOf(t) ==
    [id |-> t.id, type |-> t.type, function_name |-> t.function.name,
     arguments |-> json_loads(t.function.arguments)]

\* the values `response` holds: kind is the Python type of the value
Unbound == [kind |-> "unbound", text |-> "", calls |-> <<>>]
StrResponse(s) == [kind |-> "str", text |-> s, calls |-> <<>>]
ListResponse(l) == [kind |-> "list", text |-> "", calls |-> l]

\* a slip in _get_response: a message with text is returned as text, its
\* tool calls unseen
ReturnValueTextFirst(m) ==
    IF Truthy(m.content) THEN StrResponse(m.content)
    ELSE IF Len(m.tool_calls) > 0
    THEN ListResponse([i \in 1..Len(m.tool_calls) |-> ToolCallOf(m.tool_calls[i])])
    ELSE StrResponse("")

\* a slip in _get_response: an empty tool_calls is converted and returned
ReturnValueAlwaysList(m) ==
    ListResponse([i \in 1..Len(m.tool_calls) |-> ToolCallOf(m.tool_calls[i])])

\* the value _get_response returns when the conversion does not raise
ReturnValue(m) ==
    IF Len(m.tool_calls) > 0
    THEN ListResponse([i \in 1..Len(m.tool_calls) |-> ToolCallOf(m.tool_calls[i])])
    ELSE StrResponse(IF Truthy(m.content) THEN m.content ELSE "")

\* a slip in LLM_CALL: user_query is not cleared after the call
QueryKeptAfterLLMCall(query) == query

\* user_query after _get_response returned: run() clears it
QueryAfterLLMCall(query) == None

\* a slip in the branches of LLM_CALL: the two branches are exchanged
StateAfterLLMCallSwapped(current, r) ==
    IF r.kind = "str" THEN TOOL_RUN
    ELSE IF r.kind = "list" THEN END
    ELSE current

\* a slip in the branches of LLM_CALL: a text reply starts the next turn
StateAfterLLMCallSkippingEnd(current, r) ==
    IF r.kind = "str" THEN START
    ELSE IF r.kind = "list" THEN TOOL_RUN
    ELSE current

\* the state run() assigns in LLM_CALL, from the type of the response
StateAfterLLMCall(current, r) ==
    IF r.kind = "str" THEN END
    ELSE IF r.kind = "list" THEN TOOL_RUN
    ELSE current

(***************************************************************************)
(* SimpleAgent._run_tool.                                                  *)
(***************************************************************************)
\* a slip in the guards of _run_tool: the name of the tool is not checked
RunToolErrorAnyName(tool_call) ==
    IF ~HasKey(tool_call.arguments, "query") THEN "ValueError"
    ELSE "none"

\* the two guards of _run_tool
RunToolError(tool_call) ==
    IF tool_call.function_name # "search" THEN "ValueError"
    ELSE IF ~HasKey(tool_call.arguments, "query") THEN "ValueError"
    ELSE "none"

\* a slip in the tool message: it names the function, not the call
ToolMessageNamingFunction(tool_call, tool_response) ==
    [role |-> "tool", tool_call_id |-> tool_call.function_name,
     content |-> tool_response]

\* the message _run_tool appends
ToolMessage(tool_call, tool_response) ==
    [role |-> "tool", tool_call_id |-> tool_call.id, content |-> tool_response]

\* one call of _run_tool on the accumulated effect acc, the search doing
\* `outcome`; nothing runs once an exception is in flight
RunTool(acc, tool_call, outcome) ==
    IF acc.exit # "none" THEN acc
    ELSE IF RunToolError(tool_call) # "none"
    THEN [acc EXCEPT !.exit = RunToolError(tool_call)]
    ELSE LET called == [acc EXCEPT !.searched =
                          Append(@, Lookup(tool_call.arguments, "query"))]
         IN IF outcome \in {DDGSError, KeyboardInterrupt}
            THEN [called EXCEPT !.exit = outcome]
            ELSE [called EXCEPT !.history =
                    Append(@, ToolMessage(tool_call, outcome))]

\* a slip in the loop of TOOL_RUN: it is left after the first tool call
RunToolsFirstOnly(acc, calls, outcomes, i) ==
    IF Len(calls) = 0 THEN acc
    ELSE RunTool(acc, calls[1], outcomes[1])

\* for tool_call in response: self._run_tool(tool_call)
RECURSIVE RunTools(_, _, _, _)
RunTools(acc, calls, outcomes, i) ==
    IF i > Len(calls) THEN acc
    ELSE RunTools(RunTool(acc, calls[i], outcomes[i]), calls, outcomes, i + 1)

\* `completion` before the first call: no content, no tool calls
NoCompletion == [content |-> None, tool_calls |-> <<>>]

(***************************************************************************)
(* SimpleAgent.run: one action per case of the match statement.            *)
(***************************************************************************)
Init ==
    /\ state = START
    /\ message_history = <<>>
    /\ user_query = None
    /\ response = Unbound
    /\ completion = NoCompletion
    /\ exit = "none"
    /\ request = <<>>
    /\ printed = <<>>
    /\ searched = <<>>
    /\ reads = 0
    /\ turns = 0
    /\ rounds = 0
    /\ model_calls = 0
    /\ cb_message_history = <<>>
    /\ cb_user_query = None
    /\ cb_request = <<>>
    /\ cb_printed = <<>>
    /\ cb_turns = 0
    /\ cb_exit = "none"

\* case State.START, input() returning line
StartStep(line) ==
    /\ exit = "none"
    /\ state = START
    /\ model_calls < MaxModelCalls
    /\ user_query' = line
    /\ state' = LLM_CALL
    /\ reads' = reads + 1
    /\ UNCHANGED <<message_history, response, exit, request, printed,
                   searched, turns, rounds, model_calls,
                   completion>>

\* case State.START, Ctrl-C during input()
StartInterrupt ==
    /\ exit = "none"
    /\ state = START
    /\ exit' = KeyboardInterrupt
    /\ UNCHANGED <<state, message_history, user_query, response, request,
                   printed, searched, reads, turns, rounds, model_calls,
                   completion>>

\* case State.LLM_CALL, the API returning the message m
LLMCallStep(m) ==
    /\ exit = "none"
    /\ state = LLM_CALL
    /\ Len(m.tool_calls) > 0 => model_calls + 1 < MaxModelCalls
    /\ model_calls' = model_calls + 1
    /\ completion' = m
    /\ request' = Messages(SystemMessage(AgentSystemPrompt),
                           AppendUser(message_history, user_query))
    /\ message_history' =
         Append(AppendUser(message_history, user_query), AssistantMessage(m))
    /\ IF ConversionError(m.tool_calls) # "none"
       THEN /\ exit' = ConversionError(m.tool_calls)
            /\ UNCHANGED <<state, user_query, response>>
       ELSE /\ response' = ReturnValue(m)
            /\ user_query' = QueryAfterLLMCall(user_query)
            /\ state' = StateAfterLLMCall(state, ReturnValue(m))
            /\ exit' = exit
    /\ UNCHANGED <<printed, searched, reads, turns, rounds>>

\* case State.LLM_CALL, the API call raising e (an API error, or Ctrl-C)
LLMCallRaise(e) ==
    /\ exit = "none"
    /\ state = LLM_CALL
    /\ request' = Messages(SystemMessage(AgentSystemPrompt),
                           AppendUser(message_history, user_query))
    /\ message_history' = AppendUser(message_history, user_query)
    /\ exit' = e
    /\ UNCHANGED <<state, user_query, response, printed, searched, reads,
                   turns, rounds, model_calls,
                   completion>>

\* case State.TOOL_RUN, the searches doing outcomes[i]
ToolRunStep(outcomes) ==
    /\ exit = "none"
    /\ state = TOOL_RUN
    /\ IF response.kind # "list"
       THEN /\ exit' = "ValueError"
            /\ UNCHANGED <<state, message_history, searched, rounds>>
       ELSE LET done == RunTools([history |-> message_history,
                                  searched |-> searched, exit |-> "none"],
                                 response.calls, outcomes, 1)
            IN /\ message_history' = done.history
               /\ searched' = done.searched
               /\ exit' = done.exit
               /\ IF done.exit = "none"
                  THEN state' = LLM_CALL /\ rounds' = rounds + 1
                  ELSE UNCHANGED <<state, rounds>>
    /\ UNCHANGED <<user_query, response, request, printed, reads, turns,
                   model_calls,
                   completion>>

\* case State.END
EndStep ==
    /\ exit = "none"
    /\ state = END
    /\ IF response.kind # "str"
       THEN /\ exit' = "ValueError"
            /\ UNCHANGED <<state, printed, turns>>
       ELSE /\ printed' = Append(printed, response.text)
            /\ state' = START
            /\ turns' = turns + 1
            /\ exit' = exit
    /\ UNCHANGED <<message_history, user_query, response, request, searched,
                   reads, rounds, model_calls,
                   completion>>

\* case State.END, Ctrl-C during print()
EndInterrupt ==
    /\ exit = "none"
    /\ state = END
    /\ exit' = KeyboardInterrupt
    /\ UNCHANGED <<state, message_history, user_query, response, request,
                   printed, searched, reads, turns, rounds, model_calls,
                   completion>>

\* a slip in the handler of run(): a bare except catches every exception
CaughtAlways(e) == TRUE

\* except KeyboardInterrupt: the exceptions the loop of run() catches
Caught(e) == e = KeyboardInterrupt

\* how run() stands: in its loop, returned by break, or left by an exception
RunOutcome(e) ==
    IF e = "none" THEN "running"
    ELSE IF Caught(e) THEN "returned"
    ELSE "raised"

Next ==
    \/ \E line \in Inputs : StartStep(line) /\ UNCHANGED chatbot_vars
    \/ StartInterrupt /\ UNCHANGED chatbot_vars
    \/ \E m \in ModelMessages : LLMCallStep(m) /\ UNCHANGED chatbot_vars
    \/ \E e \in {"APIError", KeyboardInterrupt} :
          LLMCallRaise(e) /\ UNCHANGED chatbot_vars
    \/ \E outcomes \in [1..Len(response.calls) -> SearchOutcomes] :
          ToolRunStep(outcomes) /\ UNCHANGED chatbot_vars
    \/ EndStep /\ UNCHANGED chatbot_vars
    \/ EndInterrupt /\ UNCHANGED chatbot_vars

Spec == Init /\ [][Next]_vars

(***************************************************************************)
(* SimpleChatbot: _get_response and one action per way through the body    *)
(* of the loop of run().                                                   *)
(***************************************************************************)
\* a slip in the chatbot: an empty line is not stored, as in the agent
CbAppendUserIfTruthy(history, query) ==
    IF Truthy(query)
    THEN Append(history, [role |-> "user", content |-> query])
    ELSE history

\* the user's message is always stored
CbAppendUser(history, query) ==
    Append(history, [role |-> "user", content |-> query])

\* the reply is stored when its content is truthy
CbAppendAssistant(history, content) ==
    IF Truthy(content)
    THEN Append(history, [role |-> "assistant", content |-> content])
    ELSE history

\* one iteration: input() returning line, the API replying with content
ChatTurn(line, content) ==
    /\ cb_exit = "none"
    /\ cb_turns < MaxModelCalls
    /\ cb_user_query' = line
    /\ cb_request' = Messages(SystemMessage(ChatbotSystemPrompt),
                              CbAppendUser(cb_message_history, line))
    /\ cb_message_history' =
         CbAppendAssistant(CbAppendUser(cb_message_history, line), content)
    /\ cb_printed' = Append(cb_printed, content)
    /\ cb_turns' = cb_turns + 1
    /\ cb_exit' = cb_exit

\* Ctrl-C during input()
ChatInputInterrupt ==
    /\ cb_exit = "none"
    /\ cb_exit' = KeyboardInterrupt
    /\ UNCHANGED <<cb_message_history, cb_user_query, cb_request, cb_printed,
                   cb_turns>>

\* input() returning line, then the API call raising e
ChatCallRaise(line, e) ==
    /\ cb_exit = "none"
    /\ cb_turns < MaxModelCalls
    /\ cb_user_query' = line
    /\ cb_request' = Messages(SystemMessage(ChatbotSystemPrompt),
                              CbAppendUser(cb_message_history, line))
    /\ cb_message_history' = CbAppendUser(cb_message_history, line)
    /\ cb_exit' = e
    /\ UNCHANGED <<cb_printed, cb_turns>>

\* except KeyboardInterrupt: the exceptions the chatbot's loop catches
CbCaught(e) == e = KeyboardInterrupt

\* how the chatbot's run() stands
CbRunOutcome(e) ==
    IF e = "none" THEN "running"
    ELSE IF CbCaught(e) THEN "returned"
    ELSE "raised"

ChatNext ==
    \/ \E line \in Inputs, content \in Contents :
          ChatTurn(line, content) /\ UNCHANGED agent_vars
    \/ ChatInputInterrupt /\ UNCHANGED agent_vars
    \/ \E line \in Inputs, e \in {"APIError", KeyboardInterrupt} :
          ChatCallRaise(line, e) /\ UNCHANGED agent_vars

ChatSpec == Init /\ [][ChatNext]_vars

(***************************************************************************)
(* Both programs side by side, fed the same lines and the same replies of  *)
(* a model that requests no tool.                                          *)
(***************************************************************************)
TextMessage(content) == [content |-> content, tool_calls |-> <<>>]

PairNext ==
    \/ \E line \in Inputs : StartStep(line) /\ UNCHANGED chatbot_vars
    \/ StartInterrupt /\ ChatInputInterrupt
    \/ \E content \in Contents :
          LLMCallStep(TextMessage(content)) /\ ChatTurn(user_query, content)
    \/ \E e \in {"APIError", KeyboardInterrupt} :
          LLMCallRaise(e) /\ ChatCallRaise(user_query, e)
    \/ EndStep /\ UNCHANGED chatbot_vars

PairSpec == Init /\ [][PairNext]_vars

(***************************************************************************)
(* One of the two scripts is run: main() of simple_agent.py or main() of   *)
(* simple_chatbot.py.                                                      *)
(***************************************************************************)
\* the agent has not been started
AgentIdle == reads = 0 /\ exit = "none"

\* the chatbot has not been started
ChatbotIdle ==
    /\ cb_turns = 0
    /\ cb_exit = "none"
    /\ cb_message_history = <<>>

EitherNext ==
    \/ ChatbotIdle /\ Next
    \/ AgentIdle /\ ChatNext

EitherSpec == Init /\ [][EitherNext]_vars

(***************************************************************************)
(* The agent when the model requests only tools the agent can run, every   *)
(* call returns and the user does not interrupt.  The loop of run() takes  *)
(* its next step whenever it is not waiting for input().                   *)
(***************************************************************************)
Runnable(m) ==
    /\ \A i \in 1..Len(m.tool_calls) :
          /\ m.tool_calls[i].function.name = "search"
          /\ m.tool_calls[i].function.arguments = ArgsQuery
RunnableMessages == { m \in ModelMessages : Runnable(m) }

LiveLLMCall ==
    /\ \E m \in RunnableMessages : LLMCallStep(m)
    /\ UNCHANGED chatbot_vars

LiveToolRun ==
    /\ \E outcomes \in [1..Len(response.calls) -> SearchTexts] :
          ToolRunStep(outcomes)
    /\ UNCHANGED chatbot_vars

LiveEnd == EndStep /\ UNCHANGED chatbot_vars

LiveNext ==
    \/ \E line \in Inputs : StartStep(line) /\ UNCHANGED chatbot_vars
    \/ LiveLLMCall
    \/ LiveToolRun
    \/ LiveEnd

LiveSpec ==
    /\ Init
    /\ [][LiveNext]_vars
    /\ WF_vars(LiveLLMCall)
    /\ WF_vars(LiveToolRun)
    /\ WF_vars(LiveEnd)

(***************************************************************************)
(* Properties.                                                             *)
(***************************************************************************)
Last(s) == s[Len(s)]

IsPrefix(s, t) == Len(s) <= Len(t) /\ SubSeq(t, 1, Len(s)) = s

\* the messages t has after its prefix s
Added(s, t) == SubSeq(t, Len(s) + 1, Len(t))

\* the number of messages of a role in a history
RECURSIVE CountRole(_, _)
CountRole(history, role) ==
    IF history = <<>> THEN 0
    ELSE (IF Last(history).role = role THEN 1 ELSE 0)
         + CountRole(SubSeq(history, 1, Len(history) - 1), role)

\* C1: the agent starts in START and every change of its state is one of
\* START->LLM_CALL, LLM_CALL->TOOL_RUN, LLM_CALL->END, TOOL_RUN->LLM_CALL,
\* END->START.
Transitions ==
    { <<START, LLM_CALL>>, <<LLM_CALL, TOOL_RUN>>, <<LLM_CALL, END>>,
      <<TOOL_RUN, LLM_CALL>>, <<END, START>> }
C1_OnlyListedTransitions ==
    /\ state = START
    /\ [][state' # state => <<state, state'>> \in Transitions]_vars

\* a run that took all five transitions: a turn with a tool round is over
C1_Witness ==
    /\ state = START
    /\ turns >= 1
    /\ rounds >= 1

\* the messages msgs answer the tool calls, one each, in their order
AnswersCalls(msgs, calls) ==
    /\ Len(msgs) = Len(calls)
    /\ \A i \in 1..Len(calls) :
          /\ msgs[i].role = "tool"
          /\ msgs[i].tool_call_id = calls[i].id

\* a model call of the agent happens in this step
ModelCalled == request' # request \/ model_calls' # model_calls

\* the agent is about to query the model again after a tool round
Requery ==
    /\ state = LLM_CALL
    /\ exit = "none"
    /\ message_history # <<>>
    /\ Last(message_history).role = "tool"

\* C2 as stated: every TOOL_RUN step (the user not interrupting, the search
\* backend answering) appends one tool message per tool call of the response,
\* in order, and goes on to the model call, which reads no input and appends
\* no user message.
C2_EveryToolCallAnswered ==
    [][ /\ (state = TOOL_RUN /\ exit = "none"
             /\ exit' \notin {KeyboardInterrupt, DDGSError})
           => /\ IsPrefix(message_history, message_history')
              /\ AnswersCalls(Added(message_history, message_history'),
                              response.calls)
              /\ state' = LLM_CALL
        /\ (Requery /\ ModelCalled)
           => /\ reads' = reads
              /\ request' = Messages(SystemMessage(AgentSystemPrompt),
                                     message_history)
      ]_vars

\* C2 amended: a TOOL_RUN step in which no tool call raises appends one tool
\* message per tool call of the response, with that call's id, in the order
\* of the calls, without calling the model, and goes to LLM_CALL; a TOOL_RUN
\* step in which a call raises appends the messages of the calls before it
\* only, stays in TOOL_RUN and the model is not called again; the model call
\* after a tool round reads no input and sends the history as it is, all tool
\* messages included, with no user message appended.
C2_ToolRoundThenRequery ==
    [][ /\ (state = TOOL_RUN /\ exit = "none" /\ exit' = "none")
           => /\ IsPrefix(message_history, message_history')
              /\ AnswersCalls(Added(message_history, message_history'),
                              response.calls)
              /\ state' = LLM_CALL
              /\ ~ModelCalled
        /\ (state = TOOL_RUN /\ exit = "none" /\ exit' # "none")
           => /\ IsPrefix(message_history, message_history')
              /\ Len(message_history') - Len(message_history)
                    < Len(response.calls)
              /\ AnswersCalls(Added(message_history, message_history'),
                              SubSeq(response.calls, 1,
                                     Len(message_history') - Len(message_history)))
              /\ state' = TOOL_RUN
              /\ ~ModelCalled
        /\ (Requery /\ ModelCalled)
           => /\ reads' = reads
              /\ user_query = None
              /\ request' = Messages(SystemMessage(AgentSystemPrompt),
                                     message_history)
              /\ AnswersCalls(SubSeq(message_history,
                                     Len(message_history) - Len(response.calls) + 1,
                                     Len(message_history)),
                              response.calls)
              /\ CountRole(message_history', "user")
                    = CountRole(message_history, "user")
      ]_vars

\* the model was queried again after a round of two tool calls
C2_Witness ==
    /\ state = END
    /\ rounds = 1
    /\ Len(searched) = 2
    /\ Len(request) = 5

\* C3 as stated, for the agent: after n completed turns the history holds
\* exactly n user messages and ends with an assistant message.
C3_OneUserMessagePerTurn ==
    (state = START /\ exit = "none")
       => /\ CountRole(message_history, "user") = turns
          /\ turns > 0 => Last(message_history).role = "assistant"

\* C4: on every input the chatbot sends the system message, then the whole
\* history in its order, then the message just entered; the history only
\* grows at its end and holds everything that was sent.
C4_ForwardsWholeHistory ==
    [][ (cb_turns' # cb_turns \/ cb_message_history' # cb_message_history)
           => /\ cb_request' =
                   <<SystemMessage(ChatbotSystemPrompt)>>
                   \o cb_message_history
                   \o <<[role |-> "user", content |-> cb_user_query']>>
              /\ IsPrefix(cb_message_history, cb_message_history')
              /\ IsPrefix(Tail(cb_request'), cb_message_history')
      ]_vars

\* the chatbot forwarded an earlier turn together with a new line
C4_Witness ==
    /\ cb_turns = 2
    /\ Len(cb_request) = 4
    /\ cb_request[3].role = "assistant"

\* C5 as stated: between turns the agent's history equals the history of the
\* chatbot fed the same lines and the same model replies.
C5_SameHistoryAsChatbot ==
    state = START => message_history = cb_message_history

\* a tool call can be run: it names search and its arguments hold query
Searchable(tool_call) ==
    /\ tool_call.function_name = "search"
    /\ HasKey(tool_call.arguments, "query")

\* C6: in a TOOL_RUN step every search made and every tool message appended
\* is for a call that names search and has a query; a call that does not
\* raises ValueError, with no search made for it and the history as it was
\* before that call.
C6_OnlySearchWithQuery ==
    [][ (state = TOOL_RUN /\ exit = "none")
           => LET calls == response.calls
                  appended == Len(message_history') - Len(message_history)
                  made == Len(searched') - Len(searched)
              IN /\ IsPrefix(message_history, message_history')
                 /\ IsPrefix(searched, searched')
                 /\ appended <= made /\ made <= Len(calls)
                 /\ \A i \in 1..made :
                       /\ Searchable(calls[i])
                       /\ searched'[Len(searched) + i]
                             = Lookup(calls[i].arguments, "query")
                 /\ AnswersCalls(Added(message_history, message_history'),
                                 SubSeq(calls, 1, appended))
                 /\ \A i \in 1..Len(calls) :
                       ~Searchable(calls[i]) => made < i
                 /\ exit' = "ValueError"
                       <=> /\ made = appended
                           /\ appended < Len(calls)
                           /\ ~Searchable(calls[appended + 1])
                 /\ exit' \in {DDGSError, KeyboardInterrupt}
                       <=> made = appended + 1
                 /\ exit' = "none" <=> appended = Len(calls)
                 /\ exit' # "none" => state' = TOOL_RUN
      ]_vars

\* a search ran and answered, then a call the agent cannot run raised
C6_Witness ==
    /\ state = TOOL_RUN
    /\ exit = "ValueError"
    /\ Len(searched) = 1
    /\ Last(message_history).role = "tool"

\* C7: when the model asks only for searches the agent can run, every call
\* returns and the user does not interrupt, the turn the n-th input starts
\* reaches END and then START with n turns completed.
C7_TurnsTerminate ==
    \A n \in 1..MaxModelCalls :
        /\ (state = LLM_CALL /\ reads = n) ~> (state = END /\ reads = n)
        /\ (state = END /\ reads = n) ~> (state = START /\ turns = n)

\* two turns are over, one of them with a tool round
C7_Witness ==
    /\ state = START
    /\ turns = 2
    /\ rounds = 1
    /\ Len(printed) = 2

\* the model returned a message to the agent in this step
ModelReturned ==
    /\ state = LLM_CALL
    /\ exit = "none"
    /\ Len(message_history') > Len(message_history)
    /\ Last(message_history').role = "assistant"

\* C8 as stated: after a model call returns, the agent is in TOOL_RUN when
\* the message carries tool calls and in END when it does not, with the text
\* (the empty string when there is none) as the response.
C8_NextStateByToolCalls ==
    [][ ModelReturned
           => IF "tool_calls" \in DOMAIN Last(message_history')
              THEN /\ state' = TOOL_RUN
                   /\ response'.kind = "list"
              ELSE /\ state' = END
                   /\ response'.kind = "str"
                   /\ response'.text =
                        (IF "content" \in DOMAIN Last(message_history')
                         THEN Last(message_history').content ELSE "")
      ]_vars

\* C9: input() returns only in START, once per turn; a user message is
\* appended only by a model call that is the first of its turn; the model
\* call after a tool round has user_query = None and appends no user
\* message; the history never holds more user messages than lines read.
C9_InputOncePerTurn ==
    /\ [](reads = turns + (IF state = START THEN 0 ELSE 1))
    /\ [](CountRole(message_history, "user") <= reads)
    /\ [](Requery => user_query = None)
    /\ [](state \in {TOOL_RUN, END} => user_query = None)
    /\ [][ /\ reads' # reads
              => state = START /\ state' = LLM_CALL /\ reads' = reads + 1
           /\ CountRole(message_history', "user")
                 # CountRole(message_history, "user")
              => /\ state = LLM_CALL
                 /\ ~Requery
                 /\ Truthy(user_query)
                 /\ CountRole(message_history', "user")
                       = CountRole(message_history, "user") + 1
           /\ (Requery /\ ModelCalled)
              => CountRole(message_history', "user")
                    = CountRole(message_history, "user")
         ]_vars

\* a turn with two tool rounds is over and holds one user message
C9_Witness ==
    /\ state = END
    /\ reads = 1
    /\ rounds = 2
    /\ CountRole(message_history, "user") = 1

\* C10: in TOOL_RUN the pending response is a non-empty list of ToolCall and
\* in END it is a str, so neither type guard of run() raises.
C10_PendingResponseTyped ==
    /\ state = TOOL_RUN
          => response.kind = "list" /\ Len(response.calls) > 0
    /\ state = END => response.kind = "str"
    /\ state \in {TOOL_RUN, END} => response # Unbound

\* both states were entered in one turn: END after a tool round
C10_Witness ==
    /\ state = END
    /\ rounds = 1
    /\ response.kind = "str"
    /\ CountRole(message_history, "tool") >= 1

\* the assistant message nearest before position k of a history (0: none)
AssistantBefore(history, k) ==
    IF \E i \in 1..(k - 1) : history[i].role = "assistant"
    THEN CHOOSE i \in 1..(k - 1) :
            /\ history[i].role = "assistant"
            /\ \A j \in (i + 1)..(k - 1) : history[j].role # "assistant"
    ELSE 0

\* a message list obeys the tool-call protocol: the tool calls of an
\* assistant message are answered right after it, one tool message each, in
\* their order, and every tool message is such an answer
WellFormed(history) ==
    /\ \A i \in 1..Len(history) :
          "tool_calls" \in DOMAIN history[i]
             => /\ i + Len(history[i].tool_calls) <= Len(history)
                /\ AnswersCalls(SubSeq(history, i + 1,
                                       i + Len(history[i].tool_calls)),
                                history[i].tool_calls)
    /\ \A k \in 1..Len(history) :
          history[k].role = "tool"
             => LET a == AssistantBefore(history, k)
                IN /\ a > 0
                   /\ "tool_calls" \in DOMAIN history[a]
                   /\ k - a <= Len(history[a].tool_calls)
                   /\ history[k].tool_call_id = history[a].tool_calls[k - a].id

\* C11: the messages of every model call of the agent obey the tool-call
\* protocol, and between turns the history ends with an assistant message
\* that carries no tool calls.
C11_RequestsWellFormed ==
    /\ request # <<>> => WellFormed(Tail(request))
    /\ (state = START /\ turns >= 1)
          => /\ Last(message_history).role = "assistant"
             /\ "tool_calls" \notin DOMAIN Last(message_history)

\* the model was called with two answered tool calls in its messages, and
\* the turn is over
C11_Witness ==
    /\ state = START
    /\ turns = 1
    /\ Len(request) >= 4
    /\ \E i \in 1..Len(request) :
          /\ "tool_calls" \in DOMAIN request[i]
          /\ Len(request[i].tool_calls) = 2

\* every message of msgs has the role
AllOfRole(msgs, role) == \A i \in 1..Len(msgs) : msgs[i].role = role

\* what every step does to the history and the request, whatever the state:
\* the history only grows at its end, START and END leave it alone, TOOL_RUN
\* appends tool messages only, no system message is stored, and a request
\* starts with the system message
FrameOfEveryStep ==
    /\ IsPrefix(message_history, message_history')
    /\ state \in {START, END} => message_history' = message_history
    /\ state = TOOL_RUN
          => AllOfRole(Added(message_history, message_history'), "tool")
    /\ \A i \in 1..Len(message_history') :
          message_history'[i].role # "system"
    /\ ModelCalled
          => /\ state = LLM_CALL
             /\ Len(request') >= 1
             /\ request'[1] = SystemMessage(AgentSystemPrompt)
             /\ IsPrefix(message_history, Tail(request'))
             /\ IsPrefix(Tail(request'), message_history')

\* at most one user message, then exactly one assistant message
UserThenAssistant(msgs) ==
    /\ Len(msgs) \in {1, 2}
    /\ Last(msgs).role = "assistant"
    /\ Len(msgs) = 2 => msgs[1].role = "user"

\* C12 as stated: the frame of every step, and every LLM_CALL step appends
\* at most one user message and then exactly one assistant message.
C12_FixedFrame ==
    [][ /\ FrameOfEveryStep
        /\ (state = LLM_CALL /\ exit = "none")
              => UserThenAssistant(Added(message_history, message_history'))
      ]_vars

\* C12 amended: the frame of every step; an LLM_CALL step in which the model
\* call returns appends at most one user message and then exactly one
\* assistant message (also when the conversion of its tool calls then
\* raises); an LLM_CALL step in which the model call raises or is interrupted
\* appends at most one user message and nothing else.
C12_FrameOfEachState ==
    [][ /\ FrameOfEveryStep
        /\ (state = LLM_CALL /\ exit = "none"
              /\ exit' \notin {"APIError", KeyboardInterrupt})
              => /\ UserThenAssistant(Added(message_history, message_history'))
                 /\ model_calls' = model_calls + 1
        /\ (state = LLM_CALL /\ exit = "none"
              /\ exit' \in {"APIError", KeyboardInterrupt})
              => /\ Len(message_history') - Len(message_history) <= 1
                 /\ AllOfRole(Added(message_history, message_history'), "user")
                 /\ model_calls' = model_calls
      ]_vars

\* a turn went through all four states: the history holds a user message,
\* an assistant message with tool calls, a tool message and the reply
C12_Witness ==
    /\ state = START
    /\ turns = 1
    /\ Len(message_history) = 4
    /\ message_history[1].role = "user"
    /\ message_history[3].role = "tool"
    /\ request[1].role = "system"

\* the text of a stored message: the empty string when it has no content
TextOf(msg) == IF "content" \in DOMAIN msg THEN msg.content ELSE ""

\* the texts of the assistant messages without tool calls, in their order
RECURSIVE RepliesOf(_)
RepliesOf(history) ==
    IF history = <<>> THEN <<>>
    ELSE LET rest == RepliesOf(SubSeq(history, 1, Len(history) - 1))
             msg == Last(history)
         IN IF msg.role = "assistant" /\ "tool_calls" \notin DOMAIN msg
            THEN Append(rest, TextOf(msg))
            ELSE rest

\* C13: one reply is printed per completed turn, by the END step, and it is
\* the text of the latest model message, which has no tool calls; between
\* turns the printed lines are the texts of the assistant messages without
\* tool calls; a message with tool calls is stored with its text and prints
\* nothing.
C13_OneReplyShownPerTurn ==
    /\ [](Len(printed) = turns)
    /\ [](state = START => printed = RepliesOf(message_history))
    /\ [][ /\ printed' # printed
              => /\ state = END /\ state' = START
                 /\ turns' = turns + 1
                 /\ message_history' = message_history
                 /\ completion.tool_calls = <<>>
                 /\ Last(message_history).role = "assistant"
                 /\ "tool_calls" \notin DOMAIN Last(message_history)
                 /\ TextOf(Last(message_history))
                       = (IF Truthy(completion.content)
                          THEN completion.content ELSE "")
                 /\ printed' = Append(printed, TextOf(Last(message_history)))
           /\ (ModelReturned /\ completion'.tool_calls # <<>>)
              => /\ printed' = printed
                 /\ state' # END
                 /\ "tool_calls" \in DOMAIN Last(message_history')
                 /\ Truthy(completion'.content)
                       => /\ "content" \in DOMAIN Last(message_history')
                          /\ Last(message_history').content
                                = completion'.content
         ]_vars

\* a turn is over whose tool-call message carried text and whose reply was
\* empty: the text is stored and the empty reply is what was printed
C13_Witness ==
    /\ state = START
    /\ turns = 1
    /\ printed = <<"">>
    /\ \E i \in 1..Len(message_history) :
          /\ "tool_calls" \in DOMAIN message_history[i]
          /\ "content" \in DOMAIN message_history[i]
          /\ message_history[i].content = "answer"

\* C14: Ctrl-C makes run() of either program return, with the agent's state
\* unchanged and the history at most grown; run() returns in no other way;
\* every other exception leaves run() uncaught, with the agent's state the
\* one it was raised in.
C14_OnlyCtrlCReturns ==
    [][ /\ (exit = "none" /\ exit' = KeyboardInterrupt)
           => /\ RunOutcome(exit') = "returned"
              /\ state' = state
              /\ IsPrefix(message_history, message_history')
        /\ (exit = "none" /\ exit' \notin {"none", KeyboardInterrupt})
           => /\ RunOutcome(exit') = "raised"
              /\ state' = state
        /\ RunOutcome(exit') = "returned" => exit' = KeyboardInterrupt
        /\ RunOutcome(exit') = "running" => exit' = "none"
        /\ exit # "none" => UNCHANGED agent_vars
        /\ (cb_exit = "none" /\ cb_exit' = KeyboardInterrupt)
           => /\ CbRunOutcome(cb_exit') = "returned"
              /\ IsPrefix(cb_message_history, cb_message_history')
        /\ (cb_exit = "none" /\ cb_exit' \notin {"none", KeyboardInterrupt})
           => CbRunOutcome(cb_exit') = "raised"
        /\ CbRunOutcome(cb_exit') = "returned" => cb_exit' = KeyboardInterrupt
        /\ cb_exit # "none" => UNCHANGED chatbot_vars
      ]_vars

\* Ctrl-C ended a tool round after its first search was answered: run()
\* returned in TOOL_RUN with the tool message kept
C14_Witness ==
    /\ exit = KeyboardInterrupt
    /\ RunOutcome(exit) = "returned"
    /\ state = TOOL_RUN
    /\ Len(searched) = 2
    /\ Last(message_history).role = "tool"

====
